---- MODULE Spec2Model ----
(***************************************************************************)
(* Model of the Yahoo! News comment harvester and its Gemini orchestrator. *)
(*                                                                         *)
(*   src/comment_scraper.py  fetch_comments_hybrid, run_comment_collection *)
(*   src/main.py             rotate_api_key, increment_request_count,      *)
(*                           call_gemini_api, analyze_article_batch        *)
(*                                                                         *)
(* Text is a sequence of characters (one-character strings).  The Japanese *)
(* literals of the source are written with ASCII stand-ins, one stand-in   *)
(* per literal, named where they are defined.                              *)
(***************************************************************************)
EXTENDS Integers, Sequences, FiniteSets, TLC

\* =========================================================================
\* State
\* =========================================================================

\* fetch_comments_hybrid (src/comment_scraper.py:66-216)
VARIABLES
    h_pc,               \* position in fetch_comments_hybrid
    driver,             \* "unset" | "open" | "none" | "quit"
    page,               \* the loop variable of the running phase
    all_comments_data,
    seen_comments,
    ai_target_text,
    limit_for_ai,
    merged_columns,
    requested,          \* log: <<phase, page>> of every page load, in order
    yielded,            \* log: the new_cnt of each of these loads, -1 for a
                        \*      load that failed
    accepted_in,        \* log: the phase that accepted all_comments_data[i]
    dup_skipped,        \* log: the phases that skipped a record already seen
    dropped             \* log: the phases whose page without a new record held an
                        \*      empty or denylisted body

hvars == << h_pc, driver, page, all_comments_data, seen_comments, ai_target_text,
            limit_for_ai, merged_columns, requested, yielded, accepted_in, dup_skipped, dropped >>

\* The chunking of lines 207-216 run on its own
VARIABLES
    c_pc,               \* "idle" | "merge" | "done"
    c_data,             \* all_comments_data at line 207
    c_merged            \* merged_columns as returned

cvars == << c_pc, c_data, c_merged >>

\* The API key pool and call_gemini_api (src/main.py:82-83, 236-305)
VARIABLES
    AVAILABLE_API_KEYS,
    CURRENT_KEY_INDEX,
    REQUEST_COUNT_PER_KEY,
    g_pc,               \* "idle" | "attempt": position in call_gemini_api
    attempt,            \* the loop variable of line 255
    client,             \* the credential the client was built with, or None
    result,             \* what the last call returned: None or "parsed"
    attempts_made,      \* log: generate_content calls of the current/last call
    rotations_in_call,  \* log: rotations its error handlers made
    count_rotated,      \* log: whether its increment_request_count rotated
    keys_used,          \* log: the credentials its attempts were made with
    reply_count,        \* log: the service's answers to it, by class
    last_reply,         \* log: the service's latest answer to it
    last_wait,          \* log: seconds slept by its latest handler
    clean_calls,        \* log: calls completed so far, all of them successful on
                        \*      their first attempt; -1 once one was not
    rot_hist            \* log: the cursor before and after the latest rotations

gvars == << AVAILABLE_API_KEYS, CURRENT_KEY_INDEX, REQUEST_COUNT_PER_KEY, g_pc,
            attempt, client, result, attempts_made, rotations_in_call,
            count_rotated, keys_used, reply_count, last_reply, last_wait,
            clean_calls, rot_hist >>

\* analyze_article_batch (src/main.py:309-342) run on its own
VARIABLES
    b_pc,               \* "idle" | "call" | "done"
    texts,              \* the batch handed in
    prompt_template,    \* whether load_merged_prompt gave a template
    api_result,         \* what call_gemini_api returns to it
    batch_result        \* what it returns

bvars == << b_pc, texts, prompt_template, api_result, batch_result >>

\* run_comment_collection (src/comment_scraper.py:226-356)
VARIABLES
    r_pc,               \* "start" | "loop" | "done" | "aborted"
    source_ws,          \* whether the source worksheet is found (lines 233-234)
    source_rows,        \* the source sheet, header row first
    dest_rows,          \* the Comments sheet, header row first
    existing_urls,      \* the URLs read from the destination (lines 239-242)
    sorted_target_rows, \* the items of lines 251-270
    item_no,            \* the position of the loop of line 276 in them
    process_count,
    events              \* log: harvest, summarize, persist, sleep, and the
                        \*      call that raised, per row

rvars == << r_pc, source_ws, source_rows, dest_rows, existing_urls,
            sorted_target_rows, item_no, process_count, events >>

\* analyze_with_gemini_and_update_sheet (src/main.py:603-659)
VARIABLES
    a_pc,               \* "start" | "scan" | "batch" | "write" | "single" | "done" | "aborted"
    a_ws,               \* whether the source worksheet is found (lines 605-606)
    data_rows,          \* the data rows of the sheet, by kind
    a_idx,              \* idx of the scan of line 612
    target_tasks,       \* the row numbers of the tasks collected
    a_i,                \* i of the loop of line 626
    a_j,                \* the position in the batch of the loops of lines 632, 645
    results,            \* what analyze_article_batch returned for the batch
    batch_calls,        \* log: the batches handed to analyze_article_batch
    single_calls,       \* log: the rows handed to analyze_article_single
    updates,            \* log: the update_sheet_with_retry calls and how they ended
    last_update         \* log: the course of the latest of them

avars == << a_pc, a_ws, data_rows, a_idx, target_tasks, a_i, a_j, results,
            batch_calls, single_calls, updates, last_update >>

vars == << hvars, cvars, gvars, bvars, rvars, avars >>

\* =========================================================================
\* Text helpers (Python str operations used by the source)
\* =========================================================================

\* Python `x in s` on strings: x occurs in s as a contiguous substring.
IsSubstring(x, s) ==
    \E i \in 0..(Len(s) - Len(x)) : \A j \in 1..Len(x) : s[i + j] = x[j]

\* Python s.startswith(prefix).
StartsWith(s, prefix) ==
    /\ Len(prefix) <= Len(s)
    /\ \A j \in 1..Len(prefix) : s[j] = prefix[j]

\* Python sep.join(items) for a list of strings.
RECURSIVE Join(_, _)
Join(items, sep) ==
    IF Len(items) = 0 THEN << >>
    ELSE IF Len(items) = 1 THEN items[1]
    ELSE items[1] \o sep \o Join(Tail(items), sep)

NL == << "\n" >>

\* =========================================================================
\* fetch_comments_hybrid (src/comment_scraper.py:66-216)
\* =========================================================================

MAX_SELENIUM_PAGES == 10
chunk_size == 10

\* Bounds of the site the harvest runs against.
MaxArticles == 2        \* <article> elements on one served page
LastFreshPage == 11     \* the last page number that can carry a record of its own

\* "匿名", the author used when an article has no <h2>.
ANONYMOUS == << "A", "n" >>
\* The absent <h2> (art.find('h2') returns None): an article without the tag.
NoTag == [ present |-> FALSE, text |-> << >> ]
\* An <h2> whose stripped text is t.
H2(t) == [ present |-> TRUE, text |-> t ]

\* The moderation/system phrases of the `ignore` list, in source order:
\* "このコメントを削除しますか", "コメントを削除しました", "違反報告する",
\* "非表示・報告", "投稿を受け付けました".
ignore ==
    << << "D", "?" >>, << "D", "!" >>, << "V", "r" >>, << "H", "r" >>, << "P", "k" >> >>

\* max([p.get_text(strip=True) for p in p_tags], key=len): the first of the
\* longest paragraph texts; "" when the article has no <p>.
RECURSIVE LongestText(_)
LongestText(ps) ==
    IF Len(ps) = 0 THEN << >>
    ELSE IF Len(ps) = 1 THEN ps[1]
    ELSE LET rest == LongestText(Tail(ps))
         IN  IF Len(rest) > Len(ps[1]) THEN rest ELSE ps[1]

UserName(art) == IF art.h2.present THEN art.h2.text ELSE ANONYMOUS

CommentBody(art) == LongestText(art.p)

\* The denylist test that asks for the phrase itself.
IsIgnored_WholeBody(comment_body) ==
    \E k \in 1..Len(ignore) : ignore[k] = comment_body

\* any(x in comment_body for x in ignore) (lines 134, 195)
IsIgnored(comment_body) ==
    \E k \in 1..Len(ignore) : IsSubstring(ignore[k], comment_body)

\* f"【投稿者: {user_name}】\n{comment_body}"
FullText(user_name, comment_body) ==
    << "[" >> \o user_name \o << "]", "\n" >> \o comment_body

\* The body of the per-article loop, the same in both phases (lines 123-141,
\* 184-201): acc is (data, seen, new_cnt, dups, drops), dups counting the
\* records skipped as already seen and drops those discarded for their body.
AcceptArticle_NoSeenCheck(art, acc) ==
    LET comment_body == CommentBody(art)
        full_text == FullText(UserName(art), comment_body)
    IN  IF comment_body = << >> THEN [ acc EXCEPT !.drops = @ + 1 ]
        ELSE IF IsIgnored(comment_body) THEN [ acc EXCEPT !.drops = @ + 1 ]
        ELSE [ acc EXCEPT !.data = Append(@, full_text),
                          !.seen = @ \cup { full_text },
                          !.new_cnt = @ + 1 ]

AcceptArticle(art, acc) ==
    LET comment_body == CommentBody(art)
        full_text == FullText(UserName(art), comment_body)
    IN  IF comment_body = << >> THEN [ acc EXCEPT !.drops = @ + 1 ]
        ELSE IF IsIgnored(comment_body) THEN [ acc EXCEPT !.drops = @ + 1 ]
        ELSE IF full_text \in acc.seen THEN [ acc EXCEPT !.dups = @ + 1 ]
        ELSE [ acc EXCEPT !.data = Append(@, full_text),
                          !.seen = @ \cup { full_text },
                          !.new_cnt = @ + 1 ]

\* for art in articles: ... (lines 122, 183)
RECURSIVE ExtractPage(_, _)
ExtractPage(articles, acc) ==
    IF Len(articles) = 0 THEN acc
    ELSE ExtractPage(Tail(articles), AcceptArticle(Head(articles), acc))

\* ai_target_text = "\n".join(all_comments_data)
AiTargetText(data) == Join(data, NL)

\* The start page without the step over the Phase 1 range.
StartPage_NoFloor(limit) ==
    LET p1 == (limit \div 10) + 1
    IN  IF limit % 10 # 0 THEN p1 + 1 ELSE p1

\* start_page of Phase 2 (lines 163-165).
StartPage(limit) ==
    LET p1 == (limit \div 10) + 1
        p2 == IF limit % 10 # 0 THEN p1 + 1 ELSE p1
    IN  IF p2 <= MAX_SELENIUM_PAGES THEN MAX_SELENIUM_PAGES + 1 ELSE p2

\* range(0, n, step) as the list of its values.
RECURSIVE RangeFrom(_, _, _)
RangeFrom(i, n, step) ==
    IF i >= n THEN << >> ELSE << i >> \o RangeFrom(i + step, n, step)

\* data[i : j] of Python (0-based, j exclusive, clipped to the list).
Slice(data, i, j) ==
    SubSeq(data, i + 1, IF j > Len(data) THEN Len(data) ELSE j)

\* The chunk cut one record short.
MergedText_ShortSlice(data, i) == Join(Slice(data, i, i + chunk_size - 1), NL \o NL)

\* merged_text for the chunk that starts at index i (lines 211-212).
MergedText(data, i) == Join(Slice(data, i, i + chunk_size), NL \o NL)

\* The chunking that always cuts len(data) // chunk_size + 1 chunks.
MergedColumns_OneChunkMore(data) ==
    [ k \in 1..((Len(data) \div chunk_size) + 1) |->
        MergedText(data, (k - 1) * chunk_size) ]

\* merged_columns (lines 208-213).
MergedColumns(data) ==
    LET starts == RangeFrom(0, Len(data), chunk_size)
    IN  [ k \in 1..Len(starts) |-> MergedText(data, starts[k]) ]

\* ---- the site: what a page request can return ---------------------------

\* Articles any page can carry: two layouts of one comment (no <h2>, and an
\* <h2> reading "匿名"; the body is the longest of several <p>), an article
\* without any <p>, and a moderation notice.
CommonArticles ==
    { [ h2 |-> NoTag,         p |-> << << "b", "b" >> >> ],
      [ h2 |-> H2(ANONYMOUS), p |-> << << "a" >>, << "b", "b" >>, << "a", "a" >> >> ],
      [ h2 |-> H2(<< "u" >>), p |-> << >> ],
      [ h2 |-> H2(<< "u" >>), p |-> << << >>, << "x", "V", "r" >> >> ] }

\* The record only page n carries (its author is named after the page).
FreshArticle(n) == [ h2 |-> H2(<< "u", ToString(n) >>), p |-> << << "c" >> >> ]

ArticlesOn(n) ==
    CommonArticles \cup (IF n <= LastFreshPage THEN { FreshArticle(n) } ELSE { })

\* soup.find_all('article') of a served page: up to MaxArticles articles.
PagesAt(n) ==
    UNION { [ 1..k -> ArticlesOn(n) ] : k \in 0..MaxArticles }

HInit ==
    /\ h_pc = "setup"
    /\ driver = "unset"
    /\ page = 0
    /\ all_comments_data = << >>
    /\ seen_comments = { }
    /\ ai_target_text = << >>
    /\ limit_for_ai = 0
    /\ merged_columns = << >>
    /\ requested = << >>
    /\ yielded = << >>
    /\ accepted_in = << >>
    /\ dup_skipped = { }
    /\ dropped = { }

\* driver = setup_driver() (line 89): a driver, or None when Chrome fails.
SetupDriver ==
    /\ h_pc = "setup"
    /\ \E ok \in BOOLEAN :
         /\ driver' = IF ok THEN "open" ELSE "none"
         /\ h_pc' = IF ok THEN "phase1" ELSE "secure"
         /\ page' = IF ok THEN 1 ELSE page
    /\ UNCHANGED << all_comments_data, seen_comments, ai_target_text, limit_for_ai,
                    merged_columns, requested, yielded, accepted_in, dup_skipped, dropped >>
    /\ UNCHANGED << cvars, gvars, bvars, rvars, avars >>

\* The Phase 1 loop that goes on to the next page whatever the page gave.
AfterPhase1Page_NoBreak(stop) ==
    IF page + 1 > MAX_SELENIUM_PAGES
    THEN /\ h_pc' = "quit"
         /\ page' = page
    ELSE /\ h_pc' = "phase1"
         /\ page' = page + 1

\* Where the Phase 1 loop goes after processing `page` (lines 92, 119, 143, 149).
AfterPhase1Page(stop) ==
    IF stop \/ page + 1 > MAX_SELENIUM_PAGES
    THEN /\ h_pc' = "quit"
         /\ page' = page
    ELSE /\ h_pc' = "phase1"
         /\ page' = page + 1

\* One iteration of the Phase 1 loop (lines 92-149).
Phase1Page ==
    /\ h_pc = "phase1"
    /\ requested' = Append(requested, << 1, page >>)
    /\ \/ \* driver.get / WebDriverWait raises: except ... break
          /\ AfterPhase1Page(TRUE)
          /\ yielded' = Append(yielded, -1)
          /\ UNCHANGED << all_comments_data, seen_comments, accepted_in, dup_skipped, dropped >>
       \/ \E articles \in PagesAt(page) :
            LET r == ExtractPage(articles,
                        [ data |-> all_comments_data, seen |-> seen_comments,
                          new_cnt |-> 0, dups |-> 0, drops |-> 0 ])
            IN  /\ all_comments_data' = r.data
                /\ seen_comments' = r.seen
                /\ accepted_in' = accepted_in \o [ i \in 1..r.new_cnt |-> 1 ]
                /\ dup_skipped' = dup_skipped \cup (IF r.dups > 0 THEN { 1 } ELSE { })
                /\ dropped' = dropped \cup
                       (IF r.new_cnt = 0 /\ r.drops > 0 THEN { 1 } ELSE { })
                /\ AfterPhase1Page(Len(articles) = 0 \/ r.new_cnt = 0)
                /\ yielded' = Append(yielded, r.new_cnt)
    /\ UNCHANGED << driver, ai_target_text, limit_for_ai, merged_columns >>
    /\ UNCHANGED << cvars, gvars, bvars, rvars, avars >>

\* The end of Phase 1 that leaves the session open.
DriverQuit_LeaveOpen ==
    /\ h_pc = "quit"
    /\ driver' = driver
    /\ h_pc' = "secure"
    /\ UNCHANGED << page, all_comments_data, seen_comments, ai_target_text,
                    limit_for_ai, merged_columns, requested, yielded, accepted_in, dup_skipped, dropped >>
    /\ UNCHANGED << cvars, gvars, bvars, rvars, avars >>

\* driver.quit() (line 151).
DriverQuit ==
    /\ h_pc = "quit"
    /\ driver' = "quit"
    /\ h_pc' = "secure"
    /\ UNCHANGED << page, all_comments_data, seen_comments, ai_target_text,
                    limit_for_ai, merged_columns, requested, yielded, accepted_in, dup_skipped, dropped >>
    /\ UNCHANGED << cvars, gvars, bvars, rvars, avars >>

\* Lines 155-169: keep the Phase 1 text for the AI, compute the Phase 2 start.
SecureAiText ==
    /\ h_pc = "secure"
    /\ limit_for_ai' = Len(all_comments_data)
    /\ ai_target_text' = AiTargetText(all_comments_data)
    /\ page' = StartPage(Len(all_comments_data))
    /\ h_pc' = "phase2"
    /\ UNCHANGED << driver, all_comments_data, seen_comments, merged_columns,
                    requested, yielded, accepted_in, dup_skipped, dropped >>
    /\ UNCHANGED << cvars, gvars, bvars, rvars, avars >>

\* The Phase 2 loop that requests a failed page again.
Phase2Page_RetryFailed ==
    /\ h_pc = "phase2"
    /\ requested' = Append(requested, << 2, page >>)
    /\ yielded' = Append(yielded, -1)
    /\ UNCHANGED << h_pc, page, all_comments_data, seen_comments, accepted_in,
                    dup_skipped, dropped, driver, ai_target_text, limit_for_ai, merged_columns >>
    /\ UNCHANGED << cvars, gvars, bvars, rvars, avars >>

\* The Phase 2 loop that goes on after a page without a new record.
Phase2Page_NoBarrenBreak ==
    /\ h_pc = "phase2"
    /\ requested' = Append(requested, << 2, page >>)
    /\ \E articles \in PagesAt(page) :
         LET r == ExtractPage(articles,
                     [ data |-> all_comments_data, seen |-> seen_comments,
                       new_cnt |-> 0, dups |-> 0, drops |-> 0 ])
             stop == Len(articles) = 0
         IN  /\ all_comments_data' = r.data
             /\ seen_comments' = r.seen
             /\ accepted_in' = accepted_in \o [ i \in 1..r.new_cnt |-> 2 ]
             /\ h_pc' = IF stop THEN "merge" ELSE "phase2"
             /\ yielded' = Append(yielded, r.new_cnt)
             /\ page' = IF stop THEN page ELSE page + 1
    /\ UNCHANGED << dup_skipped, dropped, driver, ai_target_text, limit_for_ai,
                    merged_columns >>
    /\ UNCHANGED << cvars, gvars, bvars, rvars, avars >>

\* One iteration of the Phase 2 loop (lines 170-205).
Phase2Page ==
    /\ h_pc = "phase2"
    /\ requested' = Append(requested, << 2, page >>)
    /\ \/ \* 404, raise_for_status or a request error: break
          /\ h_pc' = "merge"
          /\ yielded' = Append(yielded, -1)
          /\ UNCHANGED << page, all_comments_data, seen_comments, accepted_in,
                          dup_skipped, dropped >>
       \/ \E articles \in PagesAt(page) :
            LET r == ExtractPage(articles,
                        [ data |-> all_comments_data, seen |-> seen_comments,
                          new_cnt |-> 0, dups |-> 0, drops |-> 0 ])
                stop == Len(articles) = 0 \/ r.new_cnt = 0
            IN  /\ all_comments_data' = r.data
                /\ seen_comments' = r.seen
                /\ accepted_in' = accepted_in \o [ i \in 1..r.new_cnt |-> 2 ]
                /\ dup_skipped' = dup_skipped \cup (IF r.dups > 0 THEN { 2 } ELSE { })
                /\ dropped' = dropped \cup
                       (IF r.new_cnt = 0 /\ r.drops > 0 THEN { 2 } ELSE { })
                /\ h_pc' = IF stop THEN "merge" ELSE "phase2"
                /\ yielded' = Append(yielded, r.new_cnt)
                /\ page' = IF stop THEN page ELSE page + 1
    /\ UNCHANGED << driver, ai_target_text, limit_for_ai, merged_columns >>
    /\ UNCHANGED << cvars, gvars, bvars, rvars, avars >>

\* The return with the AI text joined from the whole accumulator.
MergeAndReturn_RejoinAi ==
    /\ h_pc = "merge"
    /\ merged_columns' = MergedColumns(all_comments_data)
    /\ ai_target_text' = AiTargetText(all_comments_data)
    /\ h_pc' = "done"
    /\ UNCHANGED << driver, page, all_comments_data, seen_comments,
                    limit_for_ai, requested, yielded, accepted_in, dup_skipped, dropped >>
    /\ UNCHANGED << cvars, gvars, bvars, rvars, avars >>

\* Lines 207-216: chunk the accumulator and return.
MergeAndReturn ==
    /\ h_pc = "merge"
    /\ merged_columns' = MergedColumns(all_comments_data)
    /\ h_pc' = "done"
    /\ UNCHANGED << driver, page, all_comments_data, seen_comments, ai_target_text,
                    limit_for_ai, requested, yielded, accepted_in, dup_skipped, dropped >>
    /\ UNCHANGED << cvars, gvars, bvars, rvars, avars >>

HNext ==
    \/ SetupDriver
    \/ Phase1Page
    \/ DriverQuit
    \/ SecureAiText
    \/ Phase2Page
    \/ MergeAndReturn

\* =========================================================================
\* The chunking of lines 207-216 as a function of the accumulator alone
\* =========================================================================

MaxRecords == 30        \* records in the accumulator handed to the chunking

\* The i-th of a run of distinct records.
RecordNo(i) == FullText(<< "u", ToString(i) >>, << "c" >>)

CIdle ==
    /\ c_pc = "idle"
    /\ c_data = << >>
    /\ c_merged = << >>

\* Any accumulator of up to MaxRecords distinct records.
CInit ==
    /\ c_pc = "merge"
    /\ \E n \in 0..MaxRecords, first \in 1..2 :
         c_data = [ i \in 1..n |-> RecordNo(first + i - 1) ]
    /\ c_merged = << >>

\* Lines 207-216 applied to c_data.
MergeOnly ==
    /\ c_pc = "merge"
    /\ c_merged' = MergedColumns(c_data)
    /\ c_pc' = "done"
    /\ UNCHANGED c_data
    /\ UNCHANGED << hvars, gvars, bvars, rvars, avars >>

CNext == MergeOnly

\* =========================================================================
\* The API key pool and call_gemini_api (src/main.py:61-119, 236-305)
\* =========================================================================

MAX_REQUESTS_BEFORE_ROTATE == 20
MAX_RETRIES == 5

MaxKeys == 3            \* credentials loaded into AVAILABLE_API_KEYS
MaxCleanCalls == 22     \* where the count of error-free calls stops counting

\* The pool holding n credentials, in list order.
KeyPool(n) == [ i \in 1..n |-> ToString(i) ]

\* The value None.
None == "None"

\* What one client.models.generate_content call (with the json.loads of line
\* 267) can do.  kind: "valid" (a response that parses), "bad_json" (a response
\* json.loads rejects), "ResourceExhausted", "Exception" (any other error).
\* cfg, q, o: whether str(e) contains "restricted HarmBlockThreshold", one of
\* "429"/"RESOURCE_EXHAUSTED", one of "503"/"overloaded"/"UNAVAILABLE".
Replies ==
    { [ kind |-> "valid", cfg |-> FALSE, q |-> FALSE, o |-> FALSE ],
      [ kind |-> "ResourceExhausted", cfg |-> FALSE, q |-> TRUE, o |-> FALSE ] }
    \cup { [ kind |-> "Exception", cfg |-> c, q |-> q, o |-> o ] :
              c \in BOOLEAN, q \in BOOLEAN, o \in BOOLEAN }
    \cup { [ kind |-> "bad_json", cfg |-> FALSE, q |-> q, o |-> o ] :
              q \in BOOLEAN, o \in BOOLEAN }

\* The handlers with a quota message handled as an overload: no rotation.
Branch_QuotaMsgAsBackoff(reply) ==
    IF reply.kind = "valid" THEN "return"
    ELSE IF reply.kind = "ResourceExhausted" THEN "rotate_429_error"
    ELSE IF reply.cfg THEN "config"
    ELSE IF reply.q \/ reply.o THEN "backoff"
    ELSE "other"

\* The handlers with the configuration test placed after the quota and
\* overload tests.
Branch_ConfigLast(reply) ==
    IF reply.kind = "valid" THEN "return"
    ELSE IF reply.kind = "ResourceExhausted" THEN "rotate_429_error"
    ELSE IF reply.q THEN "rotate_429_in_msg"
    ELSE IF reply.o THEN "backoff"
    ELSE IF reply.cfg THEN "config"
    ELSE "other"

\* The handlers with ResourceExhausted handled as an overload: no rotation.
Branch_ExhaustedAsBackoff(reply) ==
    IF reply.kind = "valid" THEN "return"
    ELSE IF reply.kind = "ResourceExhausted" THEN "backoff"
    ELSE IF reply.cfg THEN "config"
    ELSE IF reply.q THEN "rotate_429_in_msg"
    ELSE IF reply.o THEN "backoff"
    ELSE "other"

\* The branch of the try/except of lines 256-302 a reply takes.
Branch(reply) ==
    IF reply.kind = "valid" THEN "return"
    ELSE IF reply.kind = "ResourceExhausted" THEN "rotate_429_error"
    ELSE IF reply.cfg THEN "config"
    ELSE IF reply.q THEN "rotate_429_in_msg"
    ELSE IF reply.o THEN "backoff"
    ELSE "other"

\* What the service answered, as the caller sees it.
ReplyClass(reply) ==
    IF reply.kind \in { "valid", "bad_json" } THEN reply.kind
    ELSE IF reply.kind = "ResourceExhausted" THEN "quota"
    ELSE IF reply.cfg THEN "config"
    ELSE IF reply.q THEN "quota"
    ELSE IF reply.o THEN "overload"
    ELSE "other"

ReplyClasses == { "valid", "bad_json", "quota", "overload", "config", "other" }

\* The cursor that stays on the last credential instead of wrapping.
NextKeyIndex_NoWrap(i, n) == IF i + 1 < n THEN i + 1 ELSE i

\* (CURRENT_KEY_INDEX + 1) % len(AVAILABLE_API_KEYS) (line 107).
NextKeyIndex(i, n) == (i + 1) % n

\* The limit test that lets the counter reach the threshold.
CountLimitReached_Above(count) == count > MAX_REQUESTS_BEFORE_ROTATE

\* REQUEST_COUNT_PER_KEY >= MAX_REQUESTS_BEFORE_ROTATE (line 118).
CountLimitReached(count) == count >= MAX_REQUESTS_BEFORE_ROTATE

\* The handlers sleeping the same 30 seconds after every overload.
WaitSeconds_Fixed(branch, att) ==
    IF branch = "rotate_429_error" THEN 5
    ELSE IF branch = "rotate_429_in_msg" THEN 10
    ELSE IF branch = "backoff" THEN 30
    ELSE 0

\* The seconds slept by the handler of a branch at loop index attempt
\* (lines 273, 289, 294-296).
WaitSeconds(branch, att) ==
    IF branch = "rotate_429_error" THEN 5
    ELSE IF branch = "rotate_429_in_msg" THEN 10
    ELSE IF branch = "backoff" THEN 30 * (att + 1)
    ELSE 0

NoReply == [ kind |-> "none", cfg |-> FALSE, q |-> FALSE, o |-> FALSE ]

GState(n) ==
    /\ AVAILABLE_API_KEYS = KeyPool(n)
    /\ CURRENT_KEY_INDEX = 0
    /\ REQUEST_COUNT_PER_KEY = 0
    /\ g_pc = "idle"
    /\ attempt = 0
    /\ client = None
    /\ result = None
    /\ attempts_made = 0
    /\ rotations_in_call = 0
    /\ count_rotated = FALSE
    /\ keys_used = { }
    /\ reply_count = [ c \in ReplyClasses |-> 0 ]
    /\ last_reply = NoReply
    /\ last_wait = 0
    /\ clean_calls = 0
    /\ rot_hist = << 0 >>

\* Module load (lines 61-84) with one credential: the pool at rest.
GIdle == GState(1)

\* Module load with any number of credentials.
GInit == \E n \in 0..MaxKeys : GState(n)

\* The log of the latest len(AVAILABLE_API_KEYS) rotations.
Remember(hist, idx) ==
    LET h == Append(hist, idx)
        keep == Len(AVAILABLE_API_KEYS) + 1
    IN  IF Len(h) > keep THEN SubSeq(h, Len(h) - keep + 1, Len(h)) ELSE h

\* The rotation that moves the cursor and leaves the counter as it is.
Rotated_KeepCount(idx, hist) ==
    LET next == NextKeyIndex(idx, Len(AVAILABLE_API_KEYS))
    IN  [ idx |-> next, count |-> REQUEST_COUNT_PER_KEY, hist |-> Remember(hist, next) ]

\* rotate_api_key (lines 101-110) as the new (cursor, counter, log); the pool
\* is not empty.
Rotated(idx, hist) ==
    LET next == NextKeyIndex(idx, Len(AVAILABLE_API_KEYS))
    IN  [ idx |-> next, count |-> 0, hist |-> Remember(hist, next) ]

\* increment_request_count (lines 112-119) as the new (cursor, counter, log).
Incremented ==
    IF Len(AVAILABLE_API_KEYS) = 0
    THEN [ idx |-> CURRENT_KEY_INDEX, count |-> REQUEST_COUNT_PER_KEY,
           hist |-> rot_hist, rotated |-> FALSE ]
    ELSE IF CountLimitReached(REQUEST_COUNT_PER_KEY + 1)
    THEN [ rotated |-> TRUE ] @@ Rotated(CURRENT_KEY_INDEX, rot_hist)
    ELSE [ idx |-> CURRENT_KEY_INDEX, count |-> REQUEST_COUNT_PER_KEY + 1,
           hist |-> rot_hist, rotated |-> FALSE ]

\* The client that is always built with the first credential.
CurrentClient_FirstKey(idx) ==
    IF Len(AVAILABLE_API_KEYS) = 0 THEN None ELSE AVAILABLE_API_KEYS[1]

\* get_current_gemini_client (lines 92-100) for cursor idx.
CurrentClient(idx) ==
    IF Len(AVAILABLE_API_KEYS) = 0 THEN None ELSE AVAILABLE_API_KEYS[idx + 1]

\* The count of error-free calls after one more call ended.
CleanAfter(ok) ==
    IF ok /\ clean_calls >= 0
    THEN (IF clean_calls < MaxCleanCalls THEN clean_calls + 1 ELSE clean_calls)
    ELSE -1

\* call_gemini_api up to its retry loop (lines 239-242).
CallGeminiApi ==
    /\ g_pc = "idle"
    /\ LET inc == Incremented
            c == CurrentClient(inc.idx)
       IN  /\ CURRENT_KEY_INDEX' = inc.idx
           /\ REQUEST_COUNT_PER_KEY' = inc.count
           /\ rot_hist' = inc.hist
           /\ count_rotated' = inc.rotated
           /\ client' = c
           /\ g_pc' = IF c = None THEN "idle" ELSE "attempt"
           /\ clean_calls' = IF c = None THEN CleanAfter(FALSE) ELSE clean_calls
    /\ attempt' = 0
    /\ result' = None
    /\ attempts_made' = 0
    /\ rotations_in_call' = 0
    /\ keys_used' = { }
    /\ reply_count' = [ c \in ReplyClasses |-> 0 ]
    /\ last_reply' = NoReply
    /\ last_wait' = 0
    /\ UNCHANGED AVAILABLE_API_KEYS
    /\ UNCHANGED << hvars, cvars, bvars, rvars, avars >>

\* One iteration of the retry loop (lines 255-302), and lines 304-305 when it
\* was the last.
GenerateContent ==
    /\ g_pc = "attempt"
    /\ \E reply \in Replies :
         LET branch == Branch(reply)
             rotates == branch \in { "rotate_429_error", "rotate_429_in_msg" }
             retries == rotates \/ branch = "backoff"
             rot == Rotated(CURRENT_KEY_INDEX, rot_hist)
             ends == ~retries \/ attempt + 1 >= MAX_RETRIES
         IN  /\ attempts_made' = attempts_made + 1
             /\ keys_used' = keys_used \cup { client }
             /\ reply_count' =
                    [ reply_count EXCEPT ![ReplyClass(reply)] = @ + 1 ]
             /\ last_reply' = reply
             /\ last_wait' = WaitSeconds(branch, attempt)
             /\ CURRENT_KEY_INDEX' = IF rotates THEN rot.idx ELSE CURRENT_KEY_INDEX
             /\ REQUEST_COUNT_PER_KEY' =
                    IF rotates THEN rot.count ELSE REQUEST_COUNT_PER_KEY
             /\ rot_hist' = IF rotates THEN rot.hist ELSE rot_hist
             /\ rotations_in_call' = rotations_in_call + (IF rotates THEN 1 ELSE 0)
             /\ client' = IF rotates THEN CurrentClient(rot.idx) ELSE client
             /\ result' = IF branch = "return" THEN "parsed" ELSE None
             /\ attempt' = IF retries THEN attempt + 1 ELSE attempt
             /\ g_pc' = IF ends THEN "idle" ELSE "attempt"
             /\ clean_calls' =
                    IF ends
                    THEN CleanAfter(branch = "return" /\ attempts_made = 0)
                    ELSE clean_calls
    /\ UNCHANGED << AVAILABLE_API_KEYS, count_rotated >>
    /\ UNCHANGED << hvars, cvars, bvars, rvars, avars >>

GNext ==
    \/ CallGeminiApi
    \/ GenerateContent

\* =========================================================================
\* analyze_article_batch (src/main.py:309-342)
\* =========================================================================

BATCH_SIZE == 5

MaxObjects == 6         \* objects in the JSON list the service returns

\* "なし", the word for "no finding".
NASHI == << "n", "a" >>
N_A == << "N", "/", "A" >>

\* The `default` record of line 337.
default ==
    [ company_info |-> N_A, category |-> N_A, sentiment |-> N_A,
      nissan_related |-> NASHI, nissan_negative |-> NASHI ]

\* The i-th of a run of distinct analysis objects.
ObjectNo(i) ==
    [ company_info |-> << "c", ToString(i) >>, category |-> << "g" >>,
      sentiment |-> << "s" >>, nissan_related |-> NASHI, nissan_negative |-> NASHI ]

\* What call_gemini_api can return: None, or the parsed JSON, which the
\* schema asks to be a list of objects and which may be null or an object.
\* JsonNull stands for None, also as the value analyze_article_batch returns.
JsonNull == [ type |-> "null", items |-> << >> ]
JsonObject(n) == [ type |-> "object", items |-> [ i \in 1..n |-> ObjectNo(i) ] ]
JsonList(n, first) ==
    [ type |-> "list", items |-> [ i \in 1..n |-> ObjectNo(first + i - 1) ] ]

ApiResults ==
    { JsonNull, JsonObject(0), JsonObject(1) }
    \cup { JsonList(n, first) : n \in 0..MaxObjects, first \in 1..3 }

\* Python truth value of a call_gemini_api result.
Truthy(r) == r.type # "null" /\ Len(r.items) > 0

\* [x] * n
Repeat(x, n) == [ i \in 1..n |-> x ]

\* Lines 336-342 without the padding.
BatchResult_NoPadding(r, n) ==
    IF Truthy(r) /\ r.type = "list"
    THEN [ type |-> "list",
           items |-> SubSeq(r.items, 1, IF Len(r.items) > n THEN n ELSE Len(r.items)) ]
    ELSE JsonNull

\* Lines 336-342: the value analyze_article_batch returns for the result r of
\* the call and n texts.
BatchResult(r, n) ==
    IF Truthy(r) /\ r.type = "list"
    THEN LET padded == IF Len(r.items) < n
                       THEN r.items \o Repeat(default, n - Len(r.items))
                       ELSE r.items
         IN  [ type |-> "list", items |-> SubSeq(padded, 1, n) ]
    ELSE JsonNull

BIdle ==
    /\ b_pc = "idle"
    /\ texts = << >>
    /\ prompt_template = TRUE
    /\ api_result = JsonNull
    /\ batch_result = JsonNull

\* A batch as analyze_with_gemini_and_update_sheet cuts it (lines 625-628),
\* with the prompt files readable or not.
BInit ==
    /\ b_pc = "call"
    /\ \E n \in 1..BATCH_SIZE : texts = [ i \in 1..n |-> << "t", ToString(i) >> ]
    /\ prompt_template \in BOOLEAN
    /\ api_result = JsonNull
    /\ batch_result = JsonNull

\* analyze_article_batch: no call without a template (line 311); otherwise
\* the call (line 334), answered by r, and lines 336-342.
AnalyzeArticleBatch ==
    /\ b_pc = "call"
    /\ \/ /\ ~prompt_template
          /\ batch_result' = JsonNull
          /\ UNCHANGED api_result
       \/ /\ prompt_template
          /\ \E r \in ApiResults :
               /\ api_result' = r
               /\ batch_result' = BatchResult(r, Len(texts))
    /\ b_pc' = "done"
    /\ UNCHANGED << texts, prompt_template >>
    /\ UNCHANGED << hvars, cvars, gvars, rvars, avars >>

BNext == AnalyzeArticleBatch

\* =========================================================================
\* run_comment_collection (src/comment_scraper.py:226-356)
\* =========================================================================

MaxRows == 3            \* data rows of a source sheet built from RowUniverse

\* "日産", the tracked-entity marker of line 301.
NISSAN == << "N", "s" >>
\* "その他", the other/uncategorized marker of line 298.
SONOTA == << "O", "t" >>
N_A_NO_BODY == << "N", "/", "A", "(", "N", "o", " ", "B", "o", "d", "y", ")" >>
DASH == << "-" >>

\* The list of line 307.
NO_FINDING == { NASHI, N_A, N_A_NO_BODY, DASH }

WHITESPACE == { " ", "\t", "\n" }

\* Python s.strip().
RECURSIVE LStrip(_)
LStrip(s) ==
    IF Len(s) > 0 /\ s[1] \in WHITESPACE THEN LStrip(Tail(s)) ELSE s

RECURSIVE RStrip(_)
RStrip(s) ==
    IF Len(s) > 0 /\ s[Len(s)] \in WHITESPACE
    THEN RStrip(SubSeq(s, 1, Len(s) - 1))
    ELSE s

Strip(s) == RStrip(LStrip(s))

DIGITS == << "0", "1", "2", "3", "4", "5", "6", "7", "8", "9" >>

IsDigit(c) == \E i \in 1..Len(DIGITS) : DIGITS[i] = c

DigitValue(c) == (CHOOSE i \in 1..Len(DIGITS) : DIGITS[i] = c) - 1

\* int(d) for a non-empty string of digits.
RECURSIVE ToInt(_)
ToInt(d) ==
    IF Len(d) = 0 THEN 0
    ELSE ToInt(SubSeq(d, 1, Len(d) - 1)) * Len(DIGITS) + DigitValue(d[Len(d)])

\* Lines 257-261: int(re.sub(r'\D', '', str(row[5]))), 0 when int() raises,
\* which it does on the empty string.
ParseCount(s) ==
    LET d == SelectSeq(s, IsDigit)
    IN  IF Len(d) = 0 THEN 0 ELSE ToInt(d)

\* The scan in source order, for the variant that leaves line 270 out.
SortByCountDesc_SourceOrder(items) == items

\* Line 270: list.sort(key=count, reverse=True), which is stable.
RECURSIVE InsertByCount(_, _)
InsertByCount(sorted, item) ==
    IF Len(sorted) = 0 THEN << item >>
    ELSE IF Head(sorted).count >= item.count
         THEN << Head(sorted) >> \o InsertByCount(Tail(sorted), item)
         ELSE << item >> \o sorted

RECURSIVE SortByCountDesc(_)
SortByCountDesc(items) ==
    IF Len(items) = 0 THEN << >>
    ELSE InsertByCount(SortByCountDesc(SubSeq(items, 1, Len(items) - 1)),
                       items[Len(items)])

\* Lines 253-267: one item per data row that has its 11 columns; i is the
\* 0-based index of enumerate().
RECURSIVE Items(_, _)
Items(raw_data_rows, i) ==
    IF i >= Len(raw_data_rows) THEN << >>
    ELSE LET row == raw_data_rows[i + 1]
         IN  (IF row.cells < 11 THEN << >>
              ELSE << [ original_index |-> i,
                        count |-> ParseCount(row.comment_count_str),
                        data |-> row ] >>)
             \o Items(raw_data_rows, i + 1)

\* Lines 248-270.
SortedTargetRows(source) == SortByCountDesc(Items(Tail(source), 0))

\* Lines 239-242.
ExistingUrls(dest) ==
    IF Len(dest) > 1 THEN { dest[k].url : k \in 2..Len(dest) } ELSE { }

\* Condition 1 with the boundary moved above 100.
Condition1_Above100(target_company, comment_cnt) ==
    StartsWith(target_company, NISSAN) /\ comment_cnt > 100

\* Line 301.
Condition1(target_company, comment_cnt) ==
    StartsWith(target_company, NISSAN) /\ comment_cnt >= 100

\* Condition 2 with the three sentinels "なし", "N/A", "-" only.
Condition2_ThreeSentinels(nissan_neg_text) ==
    LET val == Strip(nissan_neg_text)
    IN  Len(val) > 0 /\ val \notin { NASHI, N_A, DASH }

\* Lines 306-307.
Condition2(nissan_neg_text) ==
    LET val == Strip(nissan_neg_text)
    IN  Len(val) > 0 /\ val \notin NO_FINDING

\* Lines 295-308.
IsTarget(row, comment_cnt) ==
    /\ ~StartsWith(row.category, SONOTA)
    /\ comment_cnt > 0
    /\ \/ Condition1(row.target_company, comment_cnt)
       \/ Condition2(row.nissan_neg_text)

\* dest_ws.sort((3, 'des')) of line 352: the data rows by posting date,
\* latest first.
RECURSIVE InsertByDate(_, _)
InsertByDate(sorted, r) ==
    IF Len(sorted) = 0 THEN << r >>
    ELSE IF Head(sorted).post_date >= r.post_date
         THEN << Head(sorted) >> \o InsertByDate(Tail(sorted), r)
         ELSE << r >> \o sorted

RECURSIVE SortByDateDesc(_)
SortByDateDesc(rows) ==
    IF Len(rows) = 0 THEN << >>
    ELSE InsertByDate(SortByDateDesc(SubSeq(rows, 1, Len(rows) - 1)),
                      rows[Len(rows)])

\* A row of the source sheet: the columns the run reads (A url, C post_date,
\* F comment count, G company, H category, K negative text) and how many
\* cells the row came back with.  post_date is a time stamp.
Row(url, post_date, comment_count_str, target_company, category, neg, cells) ==
    [ url |-> url, post_date |-> post_date,
      comment_count_str |-> comment_count_str,
      target_company |-> target_company, category |-> category,
      nissan_neg_text |-> neg, cells |-> cells ]

HeaderRow == Row("URL", 0, << >>, << >>, << >>, << >>, 11)

DestRow(row) == [ url |-> row.url, post_date |-> row.post_date ]

COMPLAINT == << "b", "a", "d" >>
TOYOTA == << "T", "y" >>
GENERAL == << "g" >>

\* Sheets of one data row, over every combination of the columns that the
\* selection reads.
CountStrings ==
    { << >>, << "0" >>, << "5", "0" >>, << "9", "9" >>, << "1", "0", "0" >>,
      << "2", "0", "0" >>, << "1", ",", "2", "0", "0" >>, << "x" >> }

Companies == { NISSAN, NISSAN \o << "x" >>, TOYOTA, TOYOTA \o NISSAN }

Categories == { SONOTA, SONOTA \o << "x" >>, GENERAL }

NegTexts ==
    { << >>, << " " >>, NASHI, << " " >> \o NASHI \o << " " >>, N_A,
      N_A_NO_BODY, DASH, COMPLAINT }

OneRowSheets ==
    { << HeaderRow, Row("u1", 1, c, t, g, n, w) >> :
        c \in CountStrings, t \in Companies, g \in Categories,
        n \in NegTexts, w \in { 10, 11 } }

\* Sheets of several rows that pass every test but the count and the URL.
RowUniverse ==
    { Row(u[1], u[2], c, TOYOTA, GENERAL, COMPLAINT, 11) :
        u \in { << "u1", 1 >>, << "u2", 2 >> },
        c \in { << "0" >>, << "5", "0" >>, << "1", "0", "0" >> } }

ManyRowSheets ==
    UNION { { << HeaderRow >> \o f : f \in [ 1..n -> RowUniverse ] } : n \in 2..MaxRows }

\* Counts 50, 200, 0, 100 on rows that pass every other test.
ExampleSheet ==
    << HeaderRow,
       Row("e1", 1, << "5", "0" >>, TOYOTA, GENERAL, COMPLAINT, 11),
       Row("e2", 2, << "2", "0", "0" >>, TOYOTA, GENERAL, COMPLAINT, 11),
       Row("e3", 3, << "0" >>, TOYOTA, GENERAL, COMPLAINT, 11),
       Row("e4", 4, << "1", "0", "0" >>, TOYOTA, GENERAL, COMPLAINT, 11) >>

\* Counts 99 and 100 on two rows of the tracked company.
BoundarySheets ==
    { << HeaderRow,
         Row("e1", 1, << "9", "9" >>, NISSAN, GENERAL, n, 11),
         Row("e2", 2, << "1", "0", "0" >>, NISSAN, GENERAL, n, 11) >> :
        n \in { NASHI, COMPLAINT } }

SourceSheets ==
    { << >>, << HeaderRow >> } \cup OneRowSheets \cup ManyRowSheets
        \cup { ExampleSheet } \cup BoundarySheets

DestSheets ==
    { << DestRow(HeaderRow) >>,
      << DestRow(HeaderRow), [ url |-> "u1", post_date |-> 1 ] >> }

Event(ev, item) == [ ev |-> ev, index |-> item.original_index ]

\* The steps of an item that went through without a 60 second wait.
Completed_NoSleep(item) ==
    << Event("harvest", item), Event("summarize", item), Event("persist", item) >>

\* The steps of an item that went through (lines 314-343): fetch, summarise,
\* append_rows, time.sleep(60).
Completed(item) ==
    << Event("harvest", item), Event("summarize", item), Event("persist", item),
       Event("sleep", item) >>

RState(found, source, dest) ==
    /\ r_pc = "start"
    /\ source_ws = found
    /\ source_rows = source
    /\ dest_rows = dest
    /\ existing_urls = { }
    /\ sorted_target_rows = << >>
    /\ item_no = 1
    /\ process_count = 0
    /\ events = << >>

RIdle == RState(FALSE, << >>, << DestRow(HeaderRow) >>)

RInit ==
    \E dest \in DestSheets :
        \/ RState(FALSE, << >>, dest)
        \/ \E source \in SourceSheets : RState(TRUE, source, dest)

\* Lines 232-274: open the sheets, read the destination's URLs, read and
\* sort the source rows.
RunCommentCollection ==
    /\ r_pc = "start"
    /\ IF ~source_ws
       THEN /\ r_pc' = "done"
            /\ UNCHANGED << existing_urls, sorted_target_rows >>
       ELSE /\ existing_urls' = ExistingUrls(dest_rows)
            /\ IF Len(source_rows) < 2
               THEN /\ r_pc' = "done"
                    /\ UNCHANGED sorted_target_rows
               ELSE /\ sorted_target_rows' = SortedTargetRows(source_rows)
                    /\ r_pc' = "loop"
    /\ UNCHANGED << source_ws, source_rows, dest_rows, item_no, process_count,
                    events >>
    /\ UNCHANGED << hvars, cvars, gvars, bvars, avars >>

\* Lines 276-343: one iteration of the loop.  fetch_comments_hybrid, the
\* summarizer and append_rows are called outside any try: what one of them
\* raises ends the run.
ProcessItem ==
    /\ r_pc = "loop"
    /\ item_no <= Len(sorted_target_rows)
    /\ LET item == sorted_target_rows[item_no]
           row == item.data
       IN  IF row.url \in existing_urls \/ ~IsTarget(row, item.count)
           THEN /\ item_no' = item_no + 1
                /\ UNCHANGED << r_pc, dest_rows, process_count, events >>
           ELSE \E fetched \in { "comments", "none", "raises" } :
                  IF fetched = "raises"
                  THEN /\ r_pc' = "aborted"
                       /\ events' = events \o << Event("harvest", item),
                                                 Event("fetch_error", item) >>
                       /\ UNCHANGED << item_no, dest_rows, process_count >>
                  ELSE IF fetched = "none"
                  THEN /\ item_no' = item_no + 1
                       /\ events' = events \o << Event("harvest", item) >>
                       /\ UNCHANGED << r_pc, dest_rows, process_count >>
                  ELSE \E summary \in { "record", "malformed" } :
                         IF summary = "malformed"
                         THEN /\ r_pc' = "aborted"
                              /\ events' = events \o << Event("harvest", item),
                                                        Event("summarize", item),
                                                        Event("summary_error", item) >>
                              /\ UNCHANGED << item_no, dest_rows, process_count >>
                         ELSE \E appended \in BOOLEAN :
                                IF ~appended
                                THEN /\ r_pc' = "aborted"
                                     /\ events' = events \o << Event("harvest", item),
                                                               Event("summarize", item),
                                                               Event("append_error", item) >>
                                     /\ UNCHANGED << item_no, dest_rows, process_count >>
                                ELSE /\ dest_rows' = Append(dest_rows, DestRow(row))
                                     /\ process_count' = process_count + 1
                                     /\ events' = events \o Completed(item)
                                     /\ item_no' = item_no + 1
                                     /\ UNCHANGED r_pc
    /\ UNCHANGED << source_ws, source_rows, existing_urls, sorted_target_rows >>
    /\ UNCHANGED << hvars, cvars, gvars, bvars, avars >>

\* Lines 345-356: after the loop, the destination is sorted by date when a
\* row was added; a failing sort is caught and leaves the order as it is.
FinishRun ==
    /\ r_pc = "loop"
    /\ item_no > Len(sorted_target_rows)
    /\ IF process_count > 0
       THEN \E sort_ok \in BOOLEAN :
              dest_rows' = IF sort_ok /\ Len(dest_rows) > 1
                           THEN << Head(dest_rows) >> \o SortByDateDesc(Tail(dest_rows))
                           ELSE dest_rows
       ELSE UNCHANGED dest_rows
    /\ r_pc' = "done"
    /\ UNCHANGED << source_ws, source_rows, existing_urls, sorted_target_rows,
                    item_no, process_count, events >>
    /\ UNCHANGED << hvars, cvars, gvars, bvars, avars >>

RNext ==
    \/ RunCommentCollection
    \/ ProcessItem
    \/ FinishRun

\* =========================================================================
\* update_sheet_with_retry (src/main.py:222-233)
\* =========================================================================

max_retries == 3

\* What one ws.update call can do: succeed, raise an APIError whose text
\* holds '500', '502' or '503', raise any other APIError, raise anything else.
UpdateOutcomes == { "ok", "APIError_5xx", "APIError", "Exception" }

\* The loop of lines 223-232 from loop index att on, for the outcomes of the
\* successive ws.update calls; slept lists the seconds of each time.sleep.
\* result: "written" (return of line 226), "raised" (raise e of line 230),
\* "skipped" (the loop ran out: the message of line 233 and an ordinary return).
RECURSIVE UpdateFrom(_, _, _)
UpdateFrom(outcomes, att, slept) ==
    IF att >= max_retries
    THEN [ result |-> "skipped", calls |-> att, slept |-> slept ]
    ELSE LET o == outcomes[att + 1]
         IN  IF o = "ok"
             THEN [ result |-> "written", calls |-> att + 1, slept |-> slept ]
             ELSE IF o = "APIError"
             THEN [ result |-> "raised", calls |-> att + 1, slept |-> slept ]
             ELSE UpdateFrom(outcomes, att + 1, Append(slept, 30 * (att + 1)))

UpdateSheetWithRetry(outcomes) == UpdateFrom(outcomes, 0, << >>)

\* Every course the store can take over the calls of one update.
UpdateCourses == [ 1..max_retries -> UpdateOutcomes ]

\* =========================================================================
\* analyze_with_gemini_and_update_sheet (src/main.py:603-659)
\* =========================================================================

MaxTasks == 6           \* rows of the sheet that still need an analysis

\* A data row as lines 614-619 see it: columns G..K all filled ("analysed"),
\* no usable body ("no_body"), or a row to analyse ("task").
AnalyzeSheets ==
    { prefix \o [ k \in 1..n |-> "task" ] :
        prefix \in { << >>, << "no_body" >>, << "analysed", "no_body" >>,
                     << "task", "analysed" >> },
        n \in 0..MaxTasks }

\* The answers of call_gemini_api to a batch request.
BatchApiResults ==
    { JsonNull, JsonObject(1) } \cup { JsonList(n, 1) : n \in 0..MaxObjects }

\* The log entry of one update_sheet_with_retry call of the run.
WriteLog(row_num, by, u) == [ row |-> row_num, by |-> by, result |-> u.result ]

\* batch = target_tasks[i : i + BATCH_SIZE] (line 627), as row numbers.
Batch(tasks, i) == Slice(tasks, i, i + BATCH_SIZE)

NoUpdate == [ result |-> "none", calls |-> 0, slept |-> << >> ]

AState(found, rows) ==
    /\ a_pc = "start"
    /\ a_ws = found
    /\ data_rows = rows
    /\ a_idx = 0
    /\ target_tasks = << >>
    /\ a_i = 0
    /\ a_j = 0
    /\ results = JsonNull
    /\ batch_calls = << >>
    /\ single_calls = << >>
    /\ updates = << >>
    /\ last_update = NoUpdate

AIdle == AState(FALSE, << >>)

AInit ==
    \/ AState(FALSE, << >>)
    \/ \E rows \in AnalyzeSheets : AState(TRUE, rows)

\* Where the run goes when the batch at a_i is finished (line 626).
NextBatch ==
    /\ a_i' = a_i + BATCH_SIZE
    /\ a_j' = 0
    /\ a_pc' = IF a_i + BATCH_SIZE < Len(target_tasks) THEN "batch" ELSE "done"

\* Lines 604-609: open the sheet and read its data rows.
AnalyzeStart ==
    /\ a_pc = "start"
    /\ a_pc' = IF a_ws /\ Len(data_rows) > 0 THEN "scan" ELSE "done"
    /\ UNCHANGED << a_ws, data_rows, a_idx, target_tasks, a_i, a_j, results,
                    batch_calls, single_calls, updates, last_update >>
    /\ UNCHANGED << hvars, cvars, gvars, bvars, rvars >>

\* Lines 611-623: one row of the scan that collects target_tasks, and the
\* test of line 621 after the last.
ScanRow ==
    /\ a_pc = "scan"
    /\ LET row == data_rows[a_idx + 1]
           row_num == a_idx + 2
           last == a_idx + 1 >= Len(data_rows)
           after(tasks) == IF ~last THEN "scan"
                           ELSE IF Len(tasks) = 0 THEN "done" ELSE "batch"
       IN  IF row = "no_body"
           THEN \E course \in UpdateCourses :
                  LET u == UpdateSheetWithRetry(course)
                  IN  /\ updates' = Append(updates, WriteLog(row_num, "no_body", u))
                      /\ last_update' = u
                      /\ a_pc' = IF u.result = "raised" THEN "aborted"
                                 ELSE after(target_tasks)
                      /\ UNCHANGED target_tasks
           ELSE /\ target_tasks' = IF row = "task" THEN Append(target_tasks, row_num)
                                   ELSE target_tasks
                /\ a_pc' = after(target_tasks')
                /\ UNCHANGED << updates, last_update >>
    /\ a_idx' = a_idx + 1
    /\ UNCHANGED << a_ws, data_rows, a_i, a_j, results, batch_calls, single_calls >>
    /\ UNCHANGED << hvars, cvars, gvars, bvars, rvars >>

\* Lines 626-631 and 642-643: the batch call for the tasks from a_i on.
AnalyzeBatch ==
    /\ a_pc = "batch"
    /\ LET batch == Batch(target_tasks, a_i)
       IN  \E template \in BOOLEAN, r \in BatchApiResults :
             LET res == IF template THEN BatchResult(r, Len(batch)) ELSE JsonNull
             IN  /\ results' = res
                 /\ batch_calls' = Append(batch_calls,
                                      [ rows |-> batch, failed |-> res = JsonNull ])
                 /\ a_pc' = IF res = JsonNull THEN "single" ELSE "write"
    /\ a_j' = 0
    /\ UNCHANGED << a_ws, data_rows, a_idx, target_tasks, a_i, single_calls, updates,
                    last_update >>
    /\ UNCHANGED << hvars, cvars, gvars, bvars, rvars >>

\* Lines 632-641: the write-back of results[a_j]; reading a key the object
\* does not have raises KeyError.
WriteBatchResult ==
    /\ a_pc = "write"
    /\ LET batch == Batch(target_tasks, a_i)
           row_num == batch[a_j + 1]
           last == a_j + 1 >= Len(results.items)
       IN  \E complete \in BOOLEAN :
             IF ~complete
             THEN /\ a_pc' = "aborted"
                  /\ UNCHANGED << a_i, a_j, updates, last_update >>
             ELSE \E course \in UpdateCourses :
                    LET u == UpdateSheetWithRetry(course)
                    IN  /\ updates' = Append(updates, WriteLog(row_num, "batch", u))
                        /\ last_update' = u
                        /\ IF u.result = "raised"
                           THEN a_pc' = "aborted" /\ UNCHANGED << a_i, a_j >>
                           ELSE IF last THEN NextBatch
                           ELSE a_j' = a_j + 1 /\ UNCHANGED << a_pc, a_i >>
    /\ UNCHANGED << a_ws, data_rows, a_idx, target_tasks, results, batch_calls,
                    single_calls >>
    /\ UNCHANGED << hvars, cvars, gvars, bvars, rvars >>

\* Lines 644-656: analyze_article_single for batch[a_j] and its write-back;
\* analyze_article_single returns a record with all five keys, whatever the
\* service answered.
AnalyzeSingle ==
    /\ a_pc = "single"
    /\ LET batch == Batch(target_tasks, a_i)
           row_num == batch[a_j + 1]
           last == a_j + 1 >= Len(batch)
       IN  /\ single_calls' = Append(single_calls, row_num)
           /\ \E course \in UpdateCourses :
                LET u == UpdateSheetWithRetry(course)
                IN  /\ updates' = Append(updates, WriteLog(row_num, "single", u))
                    /\ last_update' = u
                    /\ IF u.result = "raised"
                       THEN a_pc' = "aborted" /\ UNCHANGED << a_i, a_j >>
                       ELSE IF last THEN NextBatch
                       ELSE a_j' = a_j + 1 /\ UNCHANGED << a_pc, a_i >>
    /\ UNCHANGED << a_ws, data_rows, a_idx, target_tasks, results, batch_calls >>
    /\ UNCHANGED << hvars, cvars, gvars, bvars, rvars >>

ANext ==
    \/ AnalyzeStart
    \/ ScanRow
    \/ AnalyzeBatch
    \/ WriteBatchResult
    \/ AnalyzeSingle

\* =========================================================================
\* Specifications
\* =========================================================================

\* One harvest of one URL.
InitHarvest == HInit /\ CIdle /\ GIdle /\ BIdle /\ RIdle /\ AIdle
SpecHarvest == InitHarvest /\ [][HNext]_vars

\* The harvest as a program that runs on: fetch_comments_hybrid is one thread
\* of sequential code whose page loads return or fail within their timeouts
\* (lines 97, 172), so a step that can be taken is taken.
SpecHarvestLive == InitHarvest /\ [][HNext]_vars /\ WF_hvars(HNext)

\* The chunking on its own.
InitChunk == HInit /\ CInit /\ GIdle /\ BIdle /\ RIdle /\ AIdle
SpecChunk == InitChunk /\ [][CNext]_vars

\* Any sequence of call_gemini_api invocations against any service.
InitPool == HInit /\ CIdle /\ GInit /\ BIdle /\ RIdle /\ AIdle
SpecPool == InitPool /\ [][GNext]_vars

\* One analyze_article_batch call, for every batch and every answer.
InitBatch == HInit /\ CIdle /\ GIdle /\ BInit /\ RIdle /\ AIdle
SpecBatch == InitBatch /\ [][BNext]_vars

\* One run of run_comment_collection over any source sheet.
InitCollect == HInit /\ CIdle /\ GIdle /\ BIdle /\ RInit /\ AIdle
SpecCollect == InitCollect /\ [][RNext]_vars

\* One run of analyze_with_gemini_and_update_sheet over any sheet.
InitAnalyze == HInit /\ CIdle /\ GIdle /\ BIdle /\ RIdle /\ AInit
SpecAnalyze == InitAnalyze /\ [][ANext]_vars

\* =========================================================================
\* Properties
\* =========================================================================

\* How often x occurs in the texts of the list ts.
Occurrences(x, ts) ==
    Cardinality({ kp \in UNION { { << k, i >> : i \in 0..(Len(ts[k]) - Len(x)) }
                                    : k \in 1..Len(ts) } :
                    \A j \in 1..Len(x) : ts[kp[1]][kp[2] + j] = x[j] })

\* The records of all_comments_data that phase ph accepted, in order.
RECURSIVE RecordsOfPhase(_, _)
RecordsOfPhase(ph, i) ==
    IF i > Len(all_comments_data) THEN << >>
    ELSE (IF accepted_in[i] = ph THEN << all_comments_data[i] >> ELSE << >>)
            \o RecordsOfPhase(ph, i + 1)

\* C1: no two records with the same author+body key are both stored: the
\* accumulator never holds a key twice, and every key occurs at most once in
\* the returned chunks, whichever phase served it and however often.
C1_NoDuplicateStored ==
    /\ \A i, j \in 1..Len(all_comments_data) :
          all_comments_data[i] = all_comments_data[j] => i = j
    /\ h_pc = "done" =>
          \A key \in seen_comments : Occurrences(key, merged_columns) <= 1

\* A harvest that returned chunks after both phases were served a record they
\* had already seen.
C1_Witness ==
    /\ h_pc = "done"
    /\ dup_skipped = { 1, 2 }
    /\ Len(merged_columns) >= 1

\* C2: the returned ai_text is the newline-join, in discovery order, of exactly
\* the records Phase 1 accepted, and no record first accepted in Phase 2 occurs
\* in it.
C2_AiTextIsPhase1Only ==
    h_pc = "done" =>
        /\ ai_target_text = Join(RecordsOfPhase(1, 1), NL)
        /\ \A i \in 1..Len(all_comments_data) :
              accepted_in[i] = 2 =>
                  Occurrences(all_comments_data[i], << ai_target_text >>) = 0

\* Phase 1 accepted exactly 3 records and Phase 2 exactly 2 more.
C2_Witness ==
    /\ h_pc = "done"
    /\ Len(RecordsOfPhase(1, 1)) = 3
    /\ Len(RecordsOfPhase(2, 1)) = 2

\* C3: n records give ceil(n/10) chunks, every chunk but the last joining
\* exactly 10 records and the last the remainder, and the chunks in order hold
\* the records in discovery order.
C3_Chunking ==
    c_pc = "done" =>
        LET n == Len(c_data)
            m == Len(c_merged)
            last(k) == IF k < m THEN 10 * k ELSE n
        IN  /\ m = (n + 9) \div 10
            /\ \A k \in 1..m :
                  /\ c_merged[k] = Join(SubSeq(c_data, 10 * (k - 1) + 1, last(k)), NL \o NL)
                  /\ Cardinality({ i \in 1..n : Occurrences(c_data[i], << c_merged[k] >>) = 1 })
                        = (IF k < m THEN 10 ELSE n - 10 * (m - 1))
            /\ \A i \in 1..n :
                  /\ Occurrences(c_data[i], c_merged) = 1
                  /\ Occurrences(c_data[i], << c_merged[((i - 1) \div 10) + 1] >>) = 1

\* 25 records were chunked into 3 chunks.
C3_Witness ==
    /\ c_pc = "done"
    /\ Len(c_data) = 25
    /\ Len(c_merged) = 3

\* C4: on a fresh pool of at least two credentials, while every call succeeds
\* on its first attempt, calls 1 to 20 are made with the first credential and
\* call 21 with the next one.
C4_TwentyCallsThenNext ==
    (g_pc = "idle" /\ Len(AVAILABLE_API_KEYS) >= 2 /\ clean_calls \in 1..21) =>
        keys_used = { AVAILABLE_API_KEYS[IF clean_calls <= 20 THEN 1 ELSE 2] }

\* C5: every rotation moves the cursor to the next credential in list order,
\* wrapping after the last, so the latest N rotations of a pool of N end on the
\* credential they started from and made every credential current once.
C5_RoundRobin ==
    LET n == Len(AVAILABLE_API_KEYS)
        h == rot_hist
    IN  n >= 1 =>
          /\ h[Len(h)] = CURRENT_KEY_INDEX
          /\ \A i \in 1..(Len(h) - 1) :
                h[i + 1] = (IF h[i] = n - 1 THEN 0 ELSE h[i] + 1)
          /\ Len(h) = n + 1 =>
                /\ h[n + 1] = h[1]
                /\ \A k \in 0..(n - 1) :
                      Cardinality({ i \in 2..(n + 1) : h[i] = k }) = 1

\* Three credentials, the latest three rotations on record, among them one by
\* the count limit and one by a quota error, both of the current call.
C5_Witness ==
    /\ Len(AVAILABLE_API_KEYS) = 3
    /\ Len(rot_hist) = 4
    /\ count_rotated
    /\ rotations_in_call >= 1

\* C6: a call answered by two quota errors and then a valid response rotates
\* twice for them, makes exactly 3 attempts and returns the parsed result.
C6_TwoQuotaThenSuccess ==
    ( /\ g_pc = "idle"
      /\ reply_count = [ c \in ReplyClasses |->
                           IF c = "quota" THEN 2 ELSE IF c = "valid" THEN 1 ELSE 0 ] )
    =>
    ( /\ rotations_in_call = 2
      /\ attempts_made = 3
      /\ result = "parsed" )

\* Such a call has returned.
C6_Witness ==
    /\ g_pc = "idle"
    /\ reply_count["quota"] = 2
    /\ reply_count["valid"] = 1
    /\ attempts_made = 3
    /\ result = "parsed"
    /\ Len(AVAILABLE_API_KEYS) = 3
    /\ Cardinality(keys_used) = 3

\* C7 as stated: for N texts and a response that is a list of k < N objects,
\* the N results are the k objects in their order followed by N - k defaults.
C7_PadsEveryShortList ==
    ( /\ b_pc = "done"
      /\ prompt_template
      /\ api_result.type = "list"
      /\ Len(api_result.items) < Len(texts) )
    =>
    ( /\ batch_result.type = "list"
      /\ Len(batch_result.items) = Len(texts)
      /\ \A i \in 1..Len(batch_result.items) :
            batch_result.items[i] = (IF i <= Len(api_result.items)
                                     THEN api_result.items[i] ELSE default) )

\* C7 as amended: the same for a list of k objects with 1 <= k < N; an empty
\* list is answered with no result.
C7_PadsNonEmptyShortList ==
    ( /\ b_pc = "done"
      /\ prompt_template
      /\ api_result.type = "list"
      /\ Len(api_result.items) < Len(texts) )
    =>
    IF Len(api_result.items) = 0
    THEN batch_result = JsonNull
    ELSE /\ batch_result.type = "list"
         /\ Len(batch_result.items) = Len(texts)
         /\ \A i \in 1..Len(batch_result.items) :
               batch_result.items[i] = (IF i <= Len(api_result.items)
                                        THEN api_result.items[i] ELSE default)

\* 5 texts, 3 objects returned, 5 results.
C7_Witness ==
    /\ b_pc = "done"
    /\ Len(texts) = 5
    /\ api_result.type = "list"
    /\ Len(api_result.items) = 3
    /\ batch_result.type = "list"
    /\ Len(batch_result.items) = 5

\* The data rows of the source sheet and their parsed counts, by the 0-based
\* index the run gives them.
DataRow(i) == source_rows[i + 2]

DataRowNos == 0..(Len(source_rows) - 2)

IsHarvest(e) == e.ev = "harvest"

\* Row i was handed to fetch_comments_hybrid.
Selected(i) == \E k \in 1..Len(events) : events[k] = [ ev |-> "harvest", index |-> i ]

\* The loop has gone through row i.
Scanned(i) ==
    \E k \in 1..Len(sorted_target_rows) :
        /\ sorted_target_rows[k].original_index = i
        /\ \/ k < item_no
           \/ k = item_no /\ r_pc = "aborted"

\* C8: rows are harvested in non-increasing order of their parsed comment
\* count, and a row whose count is 0 is never harvested.
C8_HarvestByCountDesc ==
    LET h == SelectSeq(events, IsHarvest)
        cnt(k) == ParseCount(DataRow(h[k].index).comment_count_str)
    IN  /\ \A a, b \in 1..Len(h) : a < b => cnt(a) >= cnt(b)
        /\ \A a \in 1..Len(h) : cnt(a) > 0

\* Counts 50, 200, 0, 100: the rows are harvested in the order 200, 100, 50.
C8_Witness ==
    /\ r_pc = "done"
    /\ source_rows = ExampleSheet
    /\ SelectSeq(events, IsHarvest) =
          << [ ev |-> "harvest", index |-> 1 ], [ ev |-> "harvest", index |-> 3 ],
             [ ev |-> "harvest", index |-> 0 ] >>

\* Rule (d2) as the run applies it: the negative text, stripped, is not
\* empty and is none of the given sentinels.
RuleD2(neg, sentinels) == Len(Strip(neg)) > 0 /\ Strip(neg) \notin sentinels

Rule(row, sentinels) ==
    LET cnt == ParseCount(row.comment_count_str)
    IN  /\ row.url \notin existing_urls
        /\ ~StartsWith(row.category, SONOTA)
        /\ cnt > 0
        /\ \/ StartsWith(row.target_company, NISSAN) /\ cnt >= 100
           \/ RuleD2(row.nissan_neg_text, sentinels)

RotationStep ==
    \/ g_pc = "idle" /\ count_rotated'
    \/ rotations_in_call' = rotations_in_call + 1

\* C11: with a non-empty pool the cursor is always a valid index into it
\* (0 <= CURRENT_KEY_INDEX < len(AVAILABLE_API_KEYS)), and right after every
\* rotation the per-credential counter is 0.
C11_CursorValidCounterReset ==
    /\ [](Len(AVAILABLE_API_KEYS) > 0
            => CURRENT_KEY_INDEX \in 0..(Len(AVAILABLE_API_KEYS) - 1))
    /\ [][RotationStep => REQUEST_COUNT_PER_KEY' = 0]_vars

\* Three credentials and a call whose three quota errors took the cursor
\* once around the pool.
C11_Witness ==
    /\ Len(AVAILABLE_API_KEYS) = 3
    /\ rotations_in_call = 3
    /\ count_rotated
    /\ CURRENT_KEY_INDEX = 1
    /\ REQUEST_COUNT_PER_KEY = 0

\* The batch that was the k-th handed to analyze_article_batch is over: a
\* later batch was started, or the run has ended.
BatchOver(k) == k < Len(batch_calls) \/ a_pc \in { "done", "aborted" }

\* The rows analyze_article_single was called for, among the given rows.
SinglesAmong(rows) ==
    SelectSeq(single_calls, LAMBDA r : \E n \in 1..Len(rows) : rows[n] = r)

\* The update_sheet_with_retry calls of the analysis of row, by their result.
UpdatesOf(row) ==
    SelectSeq(updates, LAMBDA u : u.row = row /\ u.by \in { "batch", "single" })

\* C12: when the batch call for N tasks gave no result, the run makes exactly
\* N analyze_article_single calls, one per task of that batch, in task order
\* (the first half of the claim; the second half asks a written row for each).
C12_FailedBatchGetsNSingles ==
    \A k \in 1..Len(batch_calls) :
        (BatchOver(k) /\ batch_calls[k].failed)
            => SinglesAmong(batch_calls[k].rows) = batch_calls[k].rows

\* C12, what the run does keep: when it ends regularly, every failed batch had
\* exactly one single call per task, in task order, and every task of every
\* batch had exactly one update_sheet_with_retry call, written or given up.
C12_EveryTaskAttemptedInRegularRun ==
    a_pc = "done" =>
        \A k \in 1..Len(batch_calls) :
            LET b == batch_calls[k]
            IN  /\ b.failed => SinglesAmong(b.rows) = b.rows
                /\ ~b.failed => SinglesAmong(b.rows) = << >>
                /\ \A n \in 1..Len(b.rows) :
                      /\ Len(UpdatesOf(b.rows[n])) = 1
                      /\ UpdatesOf(b.rows[n])[1].result \in { "written", "skipped" }
                      /\ UpdatesOf(b.rows[n])[1].by =
                            (IF b.failed THEN "single" ELSE "batch")

\* A failed batch of 5 tasks answered by 5 single calls and 5 written rows.
C12_Witness ==
    /\ a_pc = "done"
    /\ Len(batch_calls) = 1
    /\ batch_calls[1].failed
    /\ Len(batch_calls[1].rows) = 5
    /\ single_calls = batch_calls[1].rows
    /\ \A n \in 1..5 : updates[n].result = "written"

\* Row i passes the selection of lines 290-310.
Eligible(i) ==
    /\ DataRow(i).cells >= 11
    /\ Rule(DataRow(i), { NASHI, N_A, N_A_NO_BODY, DASH })

Logged(ev, i) == \E k \in 1..Len(events) : events[k] = [ ev |-> ev, index |-> i ]

\* C13, for the summarization: when the run has ended and the summary of row i
\* was malformed (or the summarizer raised), every other eligible row was
\* harvested all the same.
C13_SummaryErrorIsolated ==
    \A i, j \in DataRowNos :
        ( /\ r_pc \in { "done", "aborted" }
          /\ Logged("summary_error", i)
          /\ j # i
          /\ Eligible(j) )
        => Selected(j)

\* C13, what the run does keep: a row whose harvest returned no comments does
\* not stop the scan; when the run ends regularly every eligible row was
\* harvested.
C13_EmptyHarvestIsolated ==
    r_pc = "done" => \A j \in DataRowNos : Eligible(j) => Selected(j)

\* Two eligible rows; the harvest of the first returned nothing, the second
\* was harvested and persisted.
C13_Witness ==
    /\ r_pc = "done"
    /\ Len(events) = 5
    /\ events[1].ev = "harvest"
    /\ events[2].ev = "harvest"
    /\ events[1].index # events[2].index
    /\ events[4].ev = "persist"

\* C14: a write error never leaves the write: no update_sheet_with_retry call
\* of the run ends by raising (and so none aborts the run).
C14_WriteErrorNeverPropagates ==
    \A m \in 1..Len(updates) : updates[m].result # "raised"

\* C14, what update_sheet_with_retry does keep: it calls ws.update at most 3
\* times, sleeps 30, 60, 90 seconds after the 1st, 2nd, 3rd failure that it
\* retries, and gives up without raising after 3 such failures.
C14_BoundedLinearBackoff ==
    /\ last_update.calls <= 3
    /\ \A k \in 1..Len(last_update.slept) : last_update.slept[k] = 30 * k
    /\ last_update.result = "written" => Len(last_update.slept) = last_update.calls - 1
    /\ last_update.result = "raised" => Len(last_update.slept) = last_update.calls - 1
    /\ last_update.result = "skipped" => last_update.slept = << 30, 60, 90 >>

\* A run that gave up one write and wrote the next task's row.
C14_Witness ==
    /\ a_pc = "done"
    /\ Len(updates) = 2
    /\ updates[1].result = "skipped"
    /\ updates[2].result = "written"
    /\ updates[1].row # updates[2].row
    /\ last_update.slept = << 30, 60 >>

\* C15: when setup_driver returned None no Phase 1 page is loaded, and the
\* first page Phase 2 requests is page 1.
C15_NoDriverStartsAtPage1 ==
    (driver = "none" /\ Len(requested) > 0) => requested[1] = << 2, 1 >>

\* C15, what the harvest does keep: without a driver no Phase 1 page is
\* loaded, Phase 2 runs, and the first page it requests is page 11.
C15_NoDriverStartsAtPage11 ==
    driver = "none" =>
        /\ \A k \in 1..Len(requested) : requested[k][1] = 2
        /\ Len(requested) > 0 => requested[1] = << 2, MAX_SELENIUM_PAGES + 1 >>
        /\ h_pc \in { "merge", "done" } => Len(requested) > 0

\* A harvest without a driver that returned after Phase 2 accepted a record.
C15_Witness ==
    /\ h_pc = "done"
    /\ driver = "none"
    /\ Len(requested) = 2
    /\ Len(merged_columns) = 1

\* The page loads of phase ph, in order.
PagesOf(ph) == SelectSeq(requested, LAMBDA q : q[1] = ph)

\* C16: when Phase 1 ran, the first page Phase 2 requests is at most the page
\* after the last page Phase 1 loaded: no page in between is skipped.
C16_Phase2FollowsPhase1 ==
    LET p1 == PagesOf(1)
        p2 == PagesOf(2)
    IN  (Len(p1) > 0 /\ Len(p2) > 0) => p2[1][2] <= p1[Len(p1)][2] + 1

\* Phase 1 took records from pages 1 and 2 and stopped on page 3; Phase 2
\* began at page 11.
C16_Witness ==
    /\ h_pc = "done"
    /\ PagesOf(1) = << << 1, 1 >>, << 1, 2 >>, << 1, 3 >> >>
    /\ limit_for_ai = 2
    /\ Len(PagesOf(2)) > 0
    /\ PagesOf(2)[1] = << 2, 11 >>

\* C17: Phase 1 loads pages 1, 2, ... in this order, at most 10 of them, and
\* no further page after one that gave no new record or failed to load; after
\* a failed page the harvest still goes through Phase 2.
C17_Phase1StopsAtFirstBarrenPage ==
    LET p1 == PagesOf(1)
    IN  /\ \A k \in 1..Len(p1) : requested[k] = << 1, k >>
        /\ Len(p1) <= MAX_SELENIUM_PAGES
        /\ \A k \in 1..Len(p1) : yielded[k] <= 0 => k = Len(p1)
        /\ (h_pc \in { "merge", "done" } /\ Len(p1) > 0 /\ yielded[Len(p1)] = -1)
              => Len(PagesOf(2)) > 0

\* Phase 1 took records from pages 1 and 2, failed on page 3, and the harvest
\* returned after Phase 2.
C17_Witness ==
    /\ h_pc = "done"
    /\ PagesOf(1) = << << 1, 1 >>, << 1, 2 >>, << 1, 3 >> >>
    /\ yielded[1] > 0 /\ yielded[2] > 0 /\ yielded[3] = -1
    /\ Len(PagesOf(2)) > 0

\* C18: Phase 2 requests consecutive pages, each once, and no further page
\* after one that gave no new record or failed (a 404, another error status,
\* a request error); the records accepted before are all in the returned
\* chunks.
C18_Phase2StopsAtFirstBarrenPage ==
    LET p2 == PagesOf(2)
        off == Len(PagesOf(1))
    IN  /\ \A k \in 1..(Len(p2) - 1) : p2[k + 1][2] = p2[k][2] + 1
        /\ \A k \in 1..Len(p2) : yielded[off + k] <= 0 => k = Len(p2)
        /\ h_pc = "done" =>
              \A i \in 1..Len(all_comments_data) :
                  Occurrences(all_comments_data[i], merged_columns) = 1

\* Phase 2 took records from pages 11 and 12 and failed on page 13; the
\* harvest returned one chunk with the records.
C18_Witness ==
    /\ h_pc = "done"
    /\ PagesOf(2) = << << 2, 11 >>, << 2, 12 >>, << 2, 13 >> >>
    /\ yielded[Len(yielded)] = -1
    /\ Len(RecordsOfPhase(2, 1)) >= 2
    /\ Len(merged_columns) = 1

\* C19: a harvest none of whose page loads gave a record (the pages hold no
\* article, or fail to load, with or without a driver) ends, and returns no
\* chunk and the empty ai_text.
C19_NoCommentsEmptyResult ==
    (\A k \in 1..Len(yielded) : yielded[k] <= 0) =>
        /\ all_comments_data = << >>
        /\ h_pc \in { "setup", "phase1", "quit", "secure", "phase2", "merge", "done" }
        /\ h_pc = "done" => (merged_columns = << >> /\ ai_target_text = << >>)
        /\ h_pc = "phase1" => Len(yielded) = 0
        /\ h_pc = "phase2" => Len(PagesOf(2)) = 0

\* A harvest with a driver whose page 1 and page 11 held nothing, returned
\* empty.
C19_Witness ==
    /\ h_pc = "done"
    /\ driver = "quit"
    /\ requested = << << 1, 1 >>, << 2, 11 >> >>
    /\ yielded = << 0, 0 >>
    /\ merged_columns = << >>
    /\ ai_target_text = << >>

\* The body of a stored record: what follows the line of its author.
BodyOf(full_text) ==
    LET k == CHOOSE j \in 1..Len(full_text) :
                 /\ full_text[j] = "\n"
                 /\ \A i \in 1..(j - 1) : full_text[i] # "\n"
    IN  SubSeq(full_text, k + 1, Len(full_text))

\* A body the harvest may keep: not empty, and holding none of the phrases of
\* the denylist.
Storable(body) ==
    /\ body # << >>
    /\ \A k \in 1..Len(ignore) : ~IsSubstring(ignore[k], body)

RECURSIVE SumOfYields(_)
SumOfYields(ys) ==
    IF Len(ys) = 0 THEN 0
    ELSE (IF Head(ys) > 0 THEN Head(ys) ELSE 0) + SumOfYields(Tail(ys))

\* C20: in both phases no record with an empty body or with a body holding a
\* denylisted phrase is in the accumulator or in the seen set; the new counts
\* of the page loads add up to the accumulator, which holds each seen text
\* once, so a page of only empty, denylisted or seen records counts 0; and a
\* page that counts 0 is the last one its phase loads.
C20_BarrenRecordsNeverCount ==
    /\ \A i \in 1..Len(all_comments_data) : Storable(BodyOf(all_comments_data[i]))
    /\ \A t \in seen_comments : Storable(BodyOf(t))
    /\ seen_comments = { all_comments_data[i] : i \in 1..Len(all_comments_data) }
    /\ Cardinality(seen_comments) = Len(all_comments_data)
    /\ SumOfYields(yielded) = Len(all_comments_data)
    /\ \A ph \in dropped \cup dup_skipped : \E k \in 1..Len(requested) : requested[k][1] = ph
    /\ \A ph \in dropped :
          \E k \in 1..Len(requested) : requested[k][1] = ph /\ yielded[k] = 0
    /\ \A k \in 1..Len(yielded) :
          yielded[k] = 0 =>
              /\ \A j \in (k + 1)..Len(requested) : requested[j][1] # requested[k][1]
              /\ h_pc # (IF requested[k][1] = 1 THEN "phase1" ELSE "phase2")

\* Page 1 gave one record; page 2 held that record again beside an empty or
\* denylisted one, counted 0 and ended Phase 1; page 11 did the same to
\* Phase 2; the one record was returned.
C20_Witness ==
    /\ h_pc = "done"
    /\ requested = << << 1, 1 >>, << 1, 2 >>, << 2, 11 >> >>
    /\ yielded = << 1, 0, 0 >>
    /\ dropped = { 1, 2 }
    /\ dup_skipped = { 1, 2 }
    /\ Len(all_comments_data) = 1
    /\ Len(merged_columns) = 1

\* C21 as stated: the counter is incremented on every attempt, so in a call
\* that has not rotated so far the counter is at least the number of attempts
\* the call has made.
C21_CounterCountsAttempts ==
    (~count_rotated /\ rotations_in_call = 0 /\ Len(AVAILABLE_API_KEYS) > 0) =>
        REQUEST_COUNT_PER_KEY >= attempts_made

\* C21, what holds: increment_request_count runs once per call, before the
\* retry loop; no attempt of the loop raises the counter, and the only change
\* an attempt makes to it is the reset of a quota rotation.
C21_AttemptsLeaveCounter ==
    [][g_pc = "attempt" =>
          \/ REQUEST_COUNT_PER_KEY' = REQUEST_COUNT_PER_KEY
          \/ /\ rotations_in_call' = rotations_in_call + 1
             /\ REQUEST_COUNT_PER_KEY' = 0]_vars

\* A call whose five attempts all met an overload, on a counter that stands
\* at 1.
C21_Witness ==
    /\ g_pc = "idle"
    /\ attempts_made = 5
    /\ reply_count["overload"] = 5
    /\ rotations_in_call = 0
    /\ ~count_rotated
    /\ REQUEST_COUNT_PER_KEY = 1

\* The service has answered the current (or latest) call with quota and
\* overload errors only.
OnlyQuotaAndOverload ==
    \A c \in ReplyClasses \ { "quota", "overload" } : reply_count[c] = 0

\* C22: one call makes at most 5 attempts; while the service answers with
\* quota and overload errors only, every quota error has rotated the
\* credential before the next attempt (which is made with the credential the
\* cursor moved to), the call goes on as long as fewer than 5 attempts were
\* made, and after the fifth failure it has ended with no result.
C22_FiveAttemptsThenFatal ==
    /\ attempts_made <= 5
    /\ g_pc = "attempt" => attempts_made < 5
    /\ (OnlyQuotaAndOverload /\ attempts_made >= 1) =>
          /\ rotations_in_call = reply_count["quota"]
          /\ attempts_made < 5 => g_pc = "attempt"
          /\ attempts_made = 5 => (g_pc = "idle" /\ result = None)
          /\ (g_pc = "attempt" /\ ReplyClass(last_reply) = "quota") =>
                LET n == Len(AVAILABLE_API_KEYS)
                    h == rot_hist
                IN  /\ Len(h) >= 2
                    /\ h[Len(h)] = (h[Len(h) - 1] + 1) % n
                    /\ CURRENT_KEY_INDEX = h[Len(h)]
                    /\ client = AVAILABLE_API_KEYS[CURRENT_KEY_INDEX + 1]

\* A call that met three quota errors and two overloads, in a pool of three,
\* and gave up after its fifth attempt.
C22_Witness ==
    /\ g_pc = "idle"
    /\ Len(AVAILABLE_API_KEYS) = 3
    /\ reply_count["quota"] = 3
    /\ reply_count["overload"] = 2
    /\ attempts_made = 5
    /\ rotations_in_call = 3
    /\ result = None

C24_ConfigErrorIsFatal ==
    /\ [][(g_pc = "attempt" /\ last_reply'.kind = "Exception" /\ last_reply'.cfg) =>
             /\ g_pc' = "idle"
             /\ result' = None
             /\ attempts_made' = attempts_made + 1
             /\ rotations_in_call' = rotations_in_call
             /\ CURRENT_KEY_INDEX' = CURRENT_KEY_INDEX
             /\ REQUEST_COUNT_PER_KEY' = REQUEST_COUNT_PER_KEY
             /\ last_wait' = 0]_vars
    /\ []((last_reply.kind = "Exception" /\ last_reply.cfg) =>
             (g_pc = "idle" /\ result = None))

\* A call that rotated for a quota error, waited for an overload, and ended on
\* its third attempt with a configuration error whose message also matches
\* the quota and the overload patterns.
C24_Witness ==
    /\ g_pc = "idle"
    /\ last_reply = [ kind |-> "Exception", cfg |-> TRUE, q |-> TRUE, o |-> TRUE ]
    /\ reply_count["quota"] = 1
    /\ reply_count["overload"] = 1
    /\ attempts_made = 3
    /\ rotations_in_call = 1
    /\ result = None

\* C25 as stated: a response that fails to parse ends the call at once with
\* no result, whatever the text of the parse error.
C25_ParseErrorIsFatal ==
    last_reply.kind = "bad_json" => (g_pc = "idle" /\ result = None)

\* C25, what holds: a response that fails to parse with an error text matching
\* neither the quota nor the overload pattern ends the call at once, with no
\* result, no rotation and no wait.
C25_PlainParseErrorIsFatal ==
    /\ [][(g_pc = "attempt" /\ last_reply'.kind = "bad_json"
              /\ ~last_reply'.q /\ ~last_reply'.o) =>
             /\ g_pc' = "idle"
             /\ result' = None
             /\ rotations_in_call' = rotations_in_call
             /\ CURRENT_KEY_INDEX' = CURRENT_KEY_INDEX
             /\ last_wait' = 0]_vars
    /\ []((last_reply.kind = "bad_json" /\ ~last_reply.q /\ ~last_reply.o) =>
             (g_pc = "idle" /\ result = None))

\* A call whose first response failed to parse with "429" in the text of the
\* parse error: the credential was rotated and the call is about to try again.
C25_Witness ==
    /\ g_pc = "attempt"
    /\ last_reply = [ kind |-> "bad_json", cfg |-> FALSE, q |-> TRUE, o |-> FALSE ]
    /\ attempts_made = 1
    /\ rotations_in_call = 1
    /\ last_wait = 10
    /\ Len(AVAILABLE_API_KEYS) = 2
    /\ CURRENT_KEY_INDEX = 1

\* The credentials of the pool.
PoolKeys == { AVAILABLE_API_KEYS[i] : i \in 1..Len(AVAILABLE_API_KEYS) }

C27_RowsInSequenceWithCoolDown ==
    LET e == events
        After(k, ev) == k > 1 /\ e[k - 1].ev = ev /\ e[k - 1].index = e[k].index
    IN  /\ \A k \in 1..Len(e) :
              /\ e[k].ev = "harvest" =>
                    \/ k = 1
                    \/ e[k - 1].ev \in { "harvest", "sleep" }
              /\ e[k].ev = "summarize" => After(k, "harvest")
              /\ e[k].ev = "persist" => After(k, "summarize")
              /\ e[k].ev = "sleep" => After(k, "persist")
              /\ e[k].ev \in { "fetch_error", "summary_error", "append_error" } =>
                    (k = Len(e) /\ r_pc = "aborted")
        /\ \A j, k \in 1..Len(e) :
              (j < k /\ e[j].ev = "harvest" /\ e[k].ev = "harvest") =>
                  e[j].index # e[k].index
        /\ \A j, k \in 1..Len(e) :
              (j < k /\ e[j].ev = "summarize" /\ e[k].ev = "summarize") =>
                  \E m \in (j + 1)..(k - 1) : e[m].ev = "sleep"

\* A run over three rows: the first and the last went through, the harvest of
\* the one between them gave nothing.
C27_Witness ==
    /\ r_pc = "done"
    /\ Len(events) = 9
    /\ events[5].ev = "harvest"
    /\ events[6].ev = "harvest"
    /\ events[9].ev = "sleep"
    /\ process_count = 2

\* C28: the session is acquired at most once, by setup_driver at the start
\* (unset -> open), and released exactly once, by driver.quit after the
\* Phase 1 loop (open -> quit); the driver never changes otherwise.  Phase 1
\* pages are loaded only with an open session, and from the moment Phase 1 is
\* left, so before and at every Phase 2 request, no session is open, whichever
\* way the Phase 1 loop ended.
C28_SessionReleasedBeforePhase2 ==
    /\ [][driver' # driver =>
             \/ h_pc = "setup" /\ driver = "unset" /\ driver' \in { "open", "none" }
             \/ h_pc = "quit" /\ driver = "open" /\ driver' = "quit"]_vars
    /\ [](h_pc \in { "phase1", "quit" } => driver = "open")
    /\ [](h_pc \in { "secure", "phase2", "merge", "done" } => driver \in { "none", "quit" })
    /\ [](Len(PagesOf(1)) > 0 => driver \in { "open", "quit" })
    /\ [](Len(PagesOf(2)) > 0 => driver \in { "none", "quit" })

\* A harvest whose Phase 1 ended on a page error at page 2, with the session
\* released and Phase 2 gone through pages 11 and 12.
C28_Witness ==
    /\ h_pc = "done"
    /\ driver = "quit"
    /\ requested = << << 1, 1 >>, << 1, 2 >>, << 2, 11 >>, << 2, 12 >> >>
    /\ yielded[2] = -1
    /\ yielded[3] > 0

SiteRecords ==
    { FullText(UserName(a), CommentBody(a)) :
        a \in { b \in UNION { ArticlesOn(n) : n \in 1..(LastFreshPage + 1) } :
                  Storable(CommentBody(b)) } }

\* C30: the harvest ends.  Every Phase 2 page after which the loop goes on
\* added a key to the seen set, the seen set holds only records of the site,
\* and so the Phase 2 pages requested are at most the records Phase 2 added
\* plus one, and at most the distinct records of the site plus one.
C30_HarvestTerminates ==
    /\ [][(h_pc = "phase2" /\ h_pc' = "phase2") =>
             /\ seen_comments \subseteq seen_comments'
             /\ seen_comments' # seen_comments]_vars
    /\ [](seen_comments \subseteq SiteRecords)
    /\ [](Len(PagesOf(2)) <=
             Cardinality({ i \in 1..Len(accepted_in) : accepted_in[i] = 2 }) + 1)
    /\ [](Len(PagesOf(2)) <= Cardinality(SiteRecords) + 1)
    /\ <>(h_pc = "done")

\* A harvest that ended after Phase 2 took in two records on two pages and
\* stopped at the third.
C30_Witness ==
    /\ h_pc = "done"
    /\ Len(PagesOf(2)) = 3
    /\ yielded[Len(yielded)] = 0
    /\ Cardinality({ i \in 1..Len(accepted_in) : accepted_in[i] = 2 }) = 2

\* The data rows of the destination that carry URL u.
DestRowsOf(u) == { k \in 2..Len(dest_rows) : dest_rows[k].url = u }

\* C31 as stated: no URL is harvested twice in a run, and the destination
\* never holds two rows with the same URL.
C31_EachUrlAtMostOnce ==
    /\ \A j, k \in 1..Len(events) :
          (j < k /\ events[j].ev = "harvest" /\ events[k].ev = "harvest") =>
              DataRow(events[j].index).url # DataRow(events[k].index).url
    /\ \A u \in { dest_rows[k].url : k \in 2..Len(dest_rows) } :
          Cardinality(DestRowsOf(u)) = 1

\* C31, what holds: a URL the destination held when the run read it is
\* neither harvested nor appended again; it stays on exactly one row.
C31_StoredUrlNotReprocessed ==
    r_pc # "start" =>
        /\ \A k \in 1..Len(events) : DataRow(events[k].index).url \notin existing_urls
        /\ \A u \in existing_urls : Cardinality(DestRowsOf(u)) = 1

\* A finished run over a source with two eligible rows of one URL that the
\* destination did not hold: both were harvested and both were appended.
C31_Witness ==
    /\ r_pc = "done"
    /\ Len(source_rows) = 3
    /\ source_rows[2].url = source_rows[3].url
    /\ source_rows[2].url \notin existing_urls
    /\ Selected(0)
    /\ Selected(1)
    /\ Cardinality(DestRowsOf(source_rows[2].url)) = 2
    /\ process_count = 2

====
